---- MODULE Spec2Model ----
(***************************************************************************)
(* Model of SkippyHub/huffmanlz77compression (src/main.go): the Huffman    *)
(* pipeline (BuildFrequencyTable, BuildTree over container/heap,           *)
(* buildEncoding, applyHuffmanEncoding, applyHuffmanDecoding), the         *)
(* case-shift transform (applyShiftString, removeShiftString) and the      *)
(* LZ77 compressor (LZ77Compress, longestMatch).                           *)
(*                                                                         *)
(* Go slices are 0-based; the model keeps the 0-based indices of the code  *)
(* and reads element i of a sequence q as q[i + 1].                        *)
(***************************************************************************)
EXTENDS Integers, Sequences, FiniteSets, TLC

VARIABLES
    pc,         \* position of the Huffman pipeline
    s,          \* the symbol sequence given to the Huffman pipeline
    leaves,     \* []HuffmanLeaf returned by BuildFrequencyTable
    trees,      \* the PriorityQueue of BuildTree
    a,          \* BuildTree's local a
    b,          \* BuildTree's local b
    tree,       \* the value returned by BuildTree
    encoding,   \* map[rune]string returned by buildEncoding
    encoded,    \* []rune returned by applyHuffmanEncoding
    stream,     \* the []rune handed to applyHuffmanDecoding
    decoded,    \* the string returned by applyHuffmanDecoding
    code,       \* applyHuffmanDecoding's candidate buffer when the scan ends
    outcome,    \* "ok" while running or returned, "panic" after a run-time panic
    shiftPc,    \* position of the case-shift round trip
    shiftInput, \* the string given to applyShiftString
    shifted,    \* the string returned by applyShiftString
    unshifted,  \* the string returned by removeShiftString
    lzPc,       \* position of LZ77Compress
    input,      \* LZ77Compress's input bytes
    windowSize, \* LZ77Compress's windowSize
    cursor,     \* LZ77Compress's loop variable i
    result      \* LZ77Compress's result, the tokens emitted so far

hvars == <<pc, s, leaves, trees, a, b, tree, encoding, encoded, stream,
           decoded, code, outcome>>

svars == <<shiftPc, shiftInput, shifted, unshifted>>

lvars == <<lzPc, input, windowSize, cursor, result>>

vars == <<hvars, svars, lvars>>

----------------------------------------------------------------------------
(* Bounds of the model.                                                    *)

MaxLen == 4
NumSyms == 4

SymbolOrder == <<"a", "b", "c", "d", "r">>

Alphabet == {SymbolOrder[k] : k \in 1..NumSyms}

Inputs == UNION {[1..n -> Alphabet] : n \in 0..MaxLen}

\* the scenario string of main(), "abracadabra"
Abracadabra == <<"a", "b", "r", "a", "c", "a", "d", "a", "b", "r", "a">>

----------------------------------------------------------------------------
(* HuffmanTree, HuffmanLeaf, HuffmanNode.                                  *)

NoTree == [kind |-> "nil"]

HuffmanLeaf(freq, value) ==
    [kind |-> "leaf", Frequency |-> freq, Value |-> value]

HuffmanNode(freq, left, right) ==
    [kind |-> "node", Frequency |-> freq, Value |-> 0,
     Left |-> left, Right |-> right]

Freq(t) == t.Frequency

----------------------------------------------------------------------------
(* PriorityQueue: the heap.Interface methods.                              *)

\* Less with the comparison turned around
Less_Reversed(pq, i, j) == Freq(pq[i + 1]) > Freq(pq[j + 1])

Less(pq, i, j) == Freq(pq[i + 1]) < Freq(pq[j + 1])

Swap(pq, i, j) == [pq EXCEPT ![i + 1] = pq[j + 1], ![j + 1] = pq[i + 1]]

Push(pq, x) == Append(pq, x)

Pop(pq) == [item |-> pq[Len(pq)], rest |-> SubSeq(pq, 1, Len(pq) - 1)]

----------------------------------------------------------------------------
(* container/heap as BuildTree uses it.                                    *)

\* down comparing the parent with the left child only
RECURSIVE down_LeftOnly(_, _, _)
down_LeftOnly(pq, i, n) ==
    LET j1 == 2 * i + 1
    IN  IF j1 >= n THEN pq
        ELSE IF ~Less(pq, j1, i) THEN pq
        ELSE down_LeftOnly(Swap(pq, i, j1), j1, n)

RECURSIVE down(_, _, _)
down(pq, i, n) ==
    LET j1 == 2 * i + 1
        j2 == j1 + 1
        j  == IF j2 < n /\ Less(pq, j2, j1) THEN j2 ELSE j1
    IN  IF j1 >= n THEN pq
        ELSE IF ~Less(pq, j, i) THEN pq
        ELSE down(Swap(pq, i, j), j, n)

RECURSIVE up(_, _)
up(pq, j) ==
    LET i == IF j = 0 THEN 0 ELSE (j - 1) \div 2
    IN  IF i = j \/ ~Less(pq, j, i) THEN pq
        ELSE up(Swap(pq, i, j), i)

RECURSIVE heapInitFrom(_, _)
heapInitFrom(pq, i) ==
    IF i < 0 THEN pq ELSE heapInitFrom(down(pq, i, Len(pq)), i - 1)

heapInit(pq) == heapInitFrom(pq, (Len(pq) \div 2) - 1)

heapPush(pq, x) == up(Push(pq, x), Len(pq))

\* heap.Pop calls Swap(0, n) with n = Len - 1: on an empty queue the index
\* expression pq[0] panics (index out of range)
heapPopPanics(pq) == Len(pq) = 0

heapPop(pq) ==
    LET n == Len(pq) - 1
    IN  Pop(down(Swap(pq, 0, n), 0, n))

----------------------------------------------------------------------------
(* BuildFrequencyTable.                                                    *)

RECURSIVE Count(_, _)
Count(str, c) ==
    IF str = <<>> THEN 0
    ELSE (IF Head(str) = c THEN 1 ELSE 0) + Count(Tail(str), c)

\* frequencies[char] = 1 in place of frequencies[char]++
frequencies_SetOne(str) ==
    [c \in {str[k] : k \in 1..Len(str)} |-> 1]

\* frequencies[char]++ over the runes of the string
frequencies(str) ==
    [c \in {str[k] : k \in 1..Len(str)} |-> Count(str, c)]

\* the orders in which `range frequencies` can visit the keys
KeyOrders(m) ==
    {o \in [1..Cardinality(DOMAIN m) -> DOMAIN m] :
        \A i, j \in DOMAIN o : i # j => o[i] # o[j]}

FrequencyTable(m, order) ==
    [k \in DOMAIN order |-> HuffmanLeaf(m[order[k]], order[k])]

----------------------------------------------------------------------------
(* buildEncoding, applyHuffmanEncoding, reverseMap, applyHuffmanDecoding.  *)

\* buildEncoding giving the right child the prefix of the left child
RECURSIVE buildEncoding_SameBit(_, _)
buildEncoding_SameBit(node, prefix) ==
    IF node.kind = "leaf" THEN (node.Value :> prefix)
    ELSE IF node.kind = "node" THEN
        LET leftEncoding  == buildEncoding_SameBit(node.Left, Append(prefix, "0"))
            rightEncoding == buildEncoding_SameBit(node.Right, Append(prefix, "0"))
        IN  rightEncoding @@ leftEncoding
    ELSE <<>>

RECURSIVE buildEncoding(_, _)
buildEncoding(node, prefix) ==
    IF node.kind = "leaf" THEN (node.Value :> prefix)
    ELSE IF node.kind = "node" THEN
        LET leftEncoding  == buildEncoding(node.Left, Append(prefix, "0"))
            rightEncoding == buildEncoding(node.Right, Append(prefix, "1"))
        IN  rightEncoding @@ leftEncoding
    ELSE <<>>

\* encoding[c] of a Go map: the zero value "" for an absent key
Lookup(m, c) == IF c \in DOMAIN m THEN m[c] ELSE <<>>

RECURSIVE applyHuffmanEncoding(_, _)
applyHuffmanEncoding(str, m) ==
    IF str = <<>> THEN <<>>
    ELSE Lookup(m, Head(str)) \o applyHuffmanEncoding(Tail(str), m)

\* reversed[v] = k for every k, v of m
reverseMap(m) ==
    [v \in {m[k] : k \in DOMAIN m} |-> CHOOSE k \in DOMAIN m : m[k] = v]

\* the loop of applyHuffmanDecoding without code.Reset()
RECURSIVE decodeLoop_NoReset(_, _, _, _)
decodeLoop_NoReset(str, reversed, dec, buf) ==
    IF str = <<>> THEN [decoded |-> dec, code |-> buf]
    ELSE LET buf1 == Append(buf, Head(str))
         IN  IF buf1 \in DOMAIN reversed
             THEN decodeLoop_NoReset(Tail(str), reversed,
                                     Append(dec, reversed[buf1]), buf1)
             ELSE decodeLoop_NoReset(Tail(str), reversed, dec, buf1)

\* the loop of applyHuffmanDecoding from the state (decoded, code)
RECURSIVE decodeLoop(_, _, _, _)
decodeLoop(str, reversed, dec, buf) ==
    IF str = <<>> THEN [decoded |-> dec, code |-> buf]
    ELSE LET buf1 == Append(buf, Head(str))
         IN  IF buf1 \in DOMAIN reversed
             THEN decodeLoop(Tail(str), reversed,
                             Append(dec, reversed[buf1]), <<>>)
             ELSE decodeLoop(Tail(str), reversed, dec, buf1)

applyHuffmanDecoding(str, m) == decodeLoop(str, reverseMap(m), <<>>, <<>>)

----------------------------------------------------------------------------
(* The Huffman pipeline as main() runs it.                                 *)

HuffmanIdle ==
    /\ pc = "idle"
    /\ s = <<>>
    /\ leaves = <<>>
    /\ trees = <<>>
    /\ a = NoTree
    /\ b = NoTree
    /\ tree = NoTree
    /\ encoding = <<>>
    /\ encoded = <<>>
    /\ stream = <<>>
    /\ decoded = <<>>
    /\ code = <<>>
    /\ outcome = "ok"

ShiftIdle ==
    /\ shiftPc = "idle"
    /\ shiftInput = <<>>
    /\ shifted = <<>>
    /\ unshifted = <<>>

LZ77Idle ==
    /\ lzPc = "idle"
    /\ input = <<>>
    /\ windowSize = 1
    /\ cursor = 0
    /\ result = <<>>

HuffmanInit ==
    /\ ShiftIdle
    /\ LZ77Idle
    /\ pc = "start"
    /\ s \in Inputs \cup {Abracadabra}
    /\ leaves = <<>>
    /\ trees = <<>>
    /\ a = NoTree
    /\ b = NoTree
    /\ tree = NoTree
    /\ encoding = <<>>
    /\ encoded = <<>>
    /\ stream = <<>>
    /\ decoded = <<>>
    /\ code = <<>>
    /\ outcome = "ok"

\* BuildFrequencyTable(s): one leaf per key, in map iteration order
DoBuildFrequencyTable ==
    /\ pc = "start"
    /\ \E order \in KeyOrders(frequencies(s)) :
          leaves' = FrequencyTable(frequencies(s), order)
    /\ pc' = "table"
    /\ UNCHANGED <<svars, lvars>>
    /\ UNCHANGED <<s, trees, a, b, tree, encoding, encoded, stream,
                   decoded, code, outcome>>

\* BuildTree: append every leaf to trees, heap.Init(&trees)
BuildTreeInit ==
    /\ pc = "table"
    /\ trees' = heapInit(leaves)
    /\ pc' = "loop"
    /\ UNCHANGED <<svars, lvars>>
    /\ UNCHANGED <<s, leaves, a, b, tree, encoding, encoded, stream,
                   decoded, code, outcome>>

\* a := heap.Pop(&trees)
BuildTreePopA ==
    /\ pc = "loop"
    /\ Len(trees) > 1
    /\ a' = heapPop(trees).item
    /\ trees' = heapPop(trees).rest
    /\ pc' = "popB"
    /\ UNCHANGED <<svars, lvars>>
    /\ UNCHANGED <<s, leaves, b, tree, encoding, encoded, stream,
                   decoded, code, outcome>>

\* b := heap.Pop(&trees)
BuildTreePopB ==
    /\ pc = "popB"
    /\ b' = heapPop(trees).item
    /\ trees' = heapPop(trees).rest
    /\ pc' = "push"
    /\ UNCHANGED <<svars, lvars>>
    /\ UNCHANGED <<s, leaves, a, tree, encoding, encoded, stream,
                   decoded, code, outcome>>

\* heap.Push(&trees, HuffmanNode{a.Freq() + b.Freq(), 0, a, b})
BuildTreePush ==
    /\ pc = "push"
    /\ trees' = heapPush(trees, HuffmanNode(Freq(a) + Freq(b), a, b))
    /\ pc' = "loop"
    /\ UNCHANGED <<svars, lvars>>
    /\ UNCHANGED <<s, leaves, a, b, tree, encoding, encoded, stream,
                   decoded, code, outcome>>

\* BuildTree returning a nil tree for an empty queue
BuildTreeResult_Nil(pq) ==
    IF Len(pq) = 0
    THEN [panic |-> FALSE, tree |-> NoTree, rest |-> pq]
    ELSE [panic |-> FALSE, tree |-> heapPop(pq).item, rest |-> heapPop(pq).rest]

\* return heap.Pop(&trees).(HuffmanTree)
BuildTreeResult(pq) ==
    IF heapPopPanics(pq)
    THEN [panic |-> TRUE, tree |-> NoTree, rest |-> pq]
    ELSE [panic |-> FALSE, tree |-> heapPop(pq).item, rest |-> heapPop(pq).rest]

BuildTreeReturn ==
    /\ pc = "loop"
    /\ Len(trees) <= 1
    /\ LET r == BuildTreeResult(trees)
       IN  /\ tree' = r.tree
           /\ trees' = r.rest
           /\ outcome' = IF r.panic THEN "panic" ELSE "ok"
           /\ pc' = IF r.panic THEN "done" ELSE "tree"
    /\ UNCHANGED <<svars, lvars>>
    /\ UNCHANGED <<s, leaves, a, b, encoding, encoded, stream, decoded, code>>

\* buildEncoding(tree, "")
DoBuildEncoding ==
    /\ pc = "tree"
    /\ encoding' = buildEncoding(tree, <<>>)
    /\ pc' = "table2"
    /\ UNCHANGED <<svars, lvars>>
    /\ UNCHANGED <<s, leaves, trees, a, b, tree, encoded, stream, decoded,
                   code, outcome>>

\* applyHuffmanEncoding(s, encoding)
DoEncode ==
    /\ pc = "table2"
    /\ encoded' = applyHuffmanEncoding(s, encoding)
    /\ pc' = "encoded"
    /\ UNCHANGED <<svars, lvars>>
    /\ UNCHANGED <<s, leaves, trees, a, b, tree, encoding, stream, decoded,
                   code, outcome>>

\* the streams a caller hands to applyHuffmanDecoding with this table: the
\* encoded stream, or the encoded stream cut short
Truncations(str) == {SubSeq(str, 1, n) : n \in 0..Len(str)}

\* applyHuffmanDecoding(stream, encoding)
DoDecode ==
    /\ pc = "encoded"
    /\ \E st \in Truncations(encoded) :
          /\ stream' = st
          /\ decoded' = applyHuffmanDecoding(st, encoding).decoded
          /\ code' = applyHuffmanDecoding(st, encoding).code
    /\ outcome' = "ok"
    /\ pc' = "done"
    /\ UNCHANGED <<svars, lvars>>
    /\ UNCHANGED <<s, leaves, trees, a, b, tree, encoding, encoded>>

HuffmanNext ==
    \/ DoBuildFrequencyTable
    \/ BuildTreeInit
    \/ BuildTreePopA
    \/ BuildTreePopB
    \/ BuildTreePush
    \/ BuildTreeReturn
    \/ DoBuildEncoding
    \/ DoEncode
    \/ DoDecode

SpecHuffman == HuffmanInit /\ [][HuffmanNext]_vars

----------------------------------------------------------------------------
(* The case-shift transform: applyShiftString, removeShiftString.          *)

MaxShiftLen == 3

\* the marker runes written by applyShiftString: U+2191 and U+2193
ShiftInRune == 8593
ShiftOutRune == 8595

\* Runes of the model: 'A' 65, 'a' 97, '1' 49, the digraph U+01C4 (upper
\* case), U+01C5 (title case), U+01C6 (lower case), and the two markers.
ShiftRunes == {65, 97, 49, 453, ShiftInRune, ShiftOutRune}

ShiftInputs == UNION {[1..n -> ShiftRunes] : n \in 0..MaxShiftLen}

\* unicode.IsUpper: category Lu
IsUpper(c) == c \in 65..90 \/ c = 452

\* unicode.IsLower: category Ll
IsLower(c) == c \in 97..122 \/ c = 454

\* unicode.ToLower
ToLower(c) ==
    IF c \in 65..90 THEN c + 32
    ELSE IF c \in {452, 453} THEN 454
    ELSE c

\* unicode.ToUpper
ToUpper(c) ==
    IF c \in 97..122 THEN c - 32
    ELSE IF c \in {453, 454} THEN 452
    ELSE c

\* the loop of applyShiftString from the state (isShifted, shifted)
RECURSIVE applyShiftLoop(_, _, _)
applyShiftLoop(str, isShifted, out) ==
    IF str = <<>> THEN out
    ELSE LET c == Head(str)
         IN  IF IsUpper(c) /\ ~isShifted
             THEN applyShiftLoop(Tail(str), TRUE,
                                 out \o <<ShiftInRune, ToLower(c)>>)
             ELSE IF IsLower(c) /\ isShifted
             THEN applyShiftLoop(Tail(str), FALSE, out \o <<ShiftOutRune, c>>)
             ELSE IF isShifted
             THEN applyShiftLoop(Tail(str), isShifted, Append(out, ToLower(c)))
             ELSE applyShiftLoop(Tail(str), isShifted, Append(out, c))

applyShiftString(str) == applyShiftLoop(str, FALSE, <<>>)

\* the loop of removeShiftString from the state (isShifted, unshifted)
RECURSIVE removeShiftLoop(_, _, _)
removeShiftLoop(str, isShifted, out) ==
    IF str = <<>> THEN out
    ELSE LET c == Head(str)
         IN  IF c = ShiftInRune THEN removeShiftLoop(Tail(str), TRUE, out)
             ELSE IF c = ShiftOutRune THEN removeShiftLoop(Tail(str), FALSE, out)
             ELSE IF isShifted
             THEN removeShiftLoop(Tail(str), isShifted, Append(out, ToUpper(c)))
             ELSE removeShiftLoop(Tail(str), isShifted, Append(out, c))

removeShiftString(str) == removeShiftLoop(str, FALSE, <<>>)

ShiftInit ==
    /\ HuffmanIdle
    /\ LZ77Idle
    /\ shiftPc = "start"
    /\ shiftInput \in ShiftInputs
    /\ shifted = <<>>
    /\ unshifted = <<>>

\* shifted := applyShiftString(shiftInput)
DoApplyShift ==
    /\ shiftPc = "start"
    /\ shifted' = applyShiftString(shiftInput)
    /\ shiftPc' = "shifted"
    /\ UNCHANGED <<shiftInput, unshifted>>
    /\ UNCHANGED <<hvars, lvars>>

\* unshifted := removeShiftString(shifted)
DoRemoveShift ==
    /\ shiftPc = "shifted"
    /\ unshifted' = removeShiftString(shifted)
    /\ shiftPc' = "done"
    /\ UNCHANGED <<shiftInput, shifted>>
    /\ UNCHANGED <<hvars, lvars>>

ShiftNext ==
    \/ DoApplyShift
    \/ DoRemoveShift

SpecShift == ShiftInit /\ [][ShiftNext]_vars

----------------------------------------------------------------------------
(* LZ77Compress and longestMatch.                                          *)

MaxInput == 5
MaxWindow == 3

LZBytes == {0, 97, 98}

LZInputs == UNION {[1..n -> LZBytes] : n \in 0..MaxInput}

LZ77Token(distance, length, next) ==
    [Distance |-> distance, Length |-> length, Next |-> next]

max(x, y) == IF x > y THEN x ELSE y

\* start := 0, the window not applied
WindowStart_Zero(current, w) == 0

\* start := max(0, current-windowSize)
WindowStart(current, w) == max(0, current - w)

\* the inner loop with the cursor bound one too small
RECURSIVE matchRun_ShortCap(_, _, _, _)
matchRun_ShortCap(data, k, current, l) ==
    IF /\ l + 1 < current - k
       /\ k + l < Len(data)
       /\ current + l < Len(data)
       /\ data[k + l + 1] = data[current + l + 1]
    THEN matchRun_ShortCap(data, k, current, l + 1)
    ELSE l

\* the inner loop without the bound l < current-i
RECURSIVE matchRun_NoCap(_, _, _, _)
matchRun_NoCap(data, k, current, l) ==
    IF /\ k + l < Len(data)
       /\ current + l < Len(data)
       /\ data[k + l + 1] = data[current + l + 1]
    THEN matchRun_NoCap(data, k, current, l + 1)
    ELSE l

\* the inner loop of longestMatch: l++ while the bytes agree
RECURSIVE matchRun(_, _, _, _)
matchRun(data, k, current, l) ==
    IF /\ l < current - k
       /\ k + l < Len(data)
       /\ current + l < Len(data)
       /\ data[k + l + 1] = data[current + l + 1]
    THEN matchRun(data, k, current, l + 1)
    ELSE l

\* the outer loop taking a candidate when l >= length
RECURSIVE matchScan_LastWins(_, _, _, _, _)
matchScan_LastWins(data, current, k, length, distance) ==
    IF k >= current THEN [length |-> length, distance |-> distance]
    ELSE LET l == matchRun(data, k, current, 0)
         IN  IF l >= length
             THEN matchScan_LastWins(data, current, k + 1, l, current - k)
             ELSE matchScan_LastWins(data, current, k + 1, length, distance)

\* the outer loop of longestMatch from the state (i, length, distance)
RECURSIVE matchScan(_, _, _, _, _)
matchScan(data, current, k, length, distance) ==
    IF k >= current THEN [length |-> length, distance |-> distance]
    ELSE LET l == matchRun(data, k, current, 0)
         IN  IF l > length
             THEN matchScan(data, current, k + 1, l, current - k)
             ELSE matchScan(data, current, k + 1, length, distance)

longestMatch(data, current, w) ==
    matchScan(data, current, WindowStart(current, w), 0, 0)

\* nextChar := byte(0); if i+length < len(input) { nextChar = input[i+length] }
nextChar(data, cur, length) ==
    IF cur + length < Len(data) THEN data[cur + length + 1] ELSE 0

LZ77Init ==
    /\ HuffmanIdle
    /\ ShiftIdle
    /\ lzPc = "loop"
    /\ input \in LZInputs
    /\ windowSize \in (-1)..MaxWindow
    /\ cursor = 0
    /\ result = <<>>

\* one iteration of the loop of LZ77Compress
LZ77Step ==
    /\ lzPc = "loop"
    /\ cursor < Len(input)
    /\ LET m == longestMatch(input, cursor, windowSize)
       IN  /\ result' = Append(result,
                   LZ77Token(m.distance, m.length,
                             nextChar(input, cursor, m.length)))
           /\ cursor' = cursor + m.length + 1
    /\ UNCHANGED <<lzPc, input, windowSize>>
    /\ UNCHANGED <<hvars, svars>>

\* the loop ends (i >= len(input)): return result
LZ77Return ==
    /\ lzPc = "loop"
    /\ cursor >= Len(input)
    /\ lzPc' = "done"
    /\ UNCHANGED <<input, windowSize, cursor, result>>
    /\ UNCHANGED <<hvars, svars>>

LZ77Next ==
    \/ LZ77Step
    \/ LZ77Return

SpecLZ77 == LZ77Init /\ [][LZ77Next]_vars

\* LZ77Compress is a sequential loop that always runs its next iteration
FairSpecLZ77 == SpecLZ77 /\ WF_vars(LZ77Next)

----------------------------------------------------------------------------
(* Properties of the Huffman pipeline.                                     *)

SymbolsOf(str) == {str[k] : k \in 1..Len(str)}

Occurrences(str, c) == Cardinality({k \in 1..Len(str) : str[k] = c})

IsPrefix(p, q) == Len(p) <= Len(q) /\ SubSeq(q, 1, Len(p)) = p

RECURSIVE SumFreq(_)
SumFreq(ls) == IF ls = <<>> THEN 0 ELSE Freq(Head(ls)) + SumFreq(Tail(ls))

RECURSIVE LeafDepth(_, _)
\* depth of the leaf of symbol c in tree t, -1 when t has no such leaf
LeafDepth(t, c) ==
    IF t.kind = "leaf" THEN (IF t.Value = c THEN 0 ELSE -1)
    ELSE IF t.kind = "node" THEN
        LET l == LeafDepth(t.Left, c)
            r == LeafDepth(t.Right, c)
        IN  IF l >= 0 THEN l + 1 ELSE IF r >= 0 THEN r + 1 ELSE -1
    ELSE -1

RECURSIVE LeafCount(_)
LeafCount(t) ==
    IF t.kind = "leaf" THEN 1
    ELSE IF t.kind = "node" THEN LeafCount(t.Left) + LeafCount(t.Right)
    ELSE 0

TableBuilt == pc \in {"table2", "encoded", "done"} /\ outcome = "ok"

TreeBuilt == pc \in {"tree", "table2", "encoded", "done"} /\ outcome = "ok"

RoundTripDone == pc = "done" /\ outcome = "ok" /\ stream = encoded

\* C1: Huffman round-trip. For every input s with at least 2 distinct
\* symbols and every leaf order, decoding the encoding of s with the table
\* built from s returns s.
C1_HuffmanRoundTrip ==
    (RoundTripDone /\ Cardinality(SymbolsOf(s)) >= 2) => decoded = s

C1_Witness ==
    /\ RoundTripDone
    /\ Cardinality(SymbolsOf(s)) >= 3
    /\ Len(encoded) > Len(s)
    /\ decoded = s

\* C2: Prefix-free code table. With at least 2 distinct symbols the table
\* has exactly one non-empty code per input symbol and no code is a prefix
\* of the code of another symbol.
C2_PrefixFree ==
    (TableBuilt /\ Len(leaves) >= 2) =>
        /\ DOMAIN encoding = {leaves[k].Value : k \in 1..Len(leaves)}
        /\ \A x \in DOMAIN encoding : encoding[x] # <<>>
        /\ \A x, y \in DOMAIN encoding :
              x # y => ~IsPrefix(encoding[x], encoding[y])

C2_Witness ==
    /\ TableBuilt
    /\ Len(leaves) >= 3
    /\ \E x, y \in DOMAIN encoding : Len(encoding[x]) < Len(encoding[y])

\* C6: Single-symbol input. For an input of n >= 1 occurrences of one
\* symbol the pipeline completes without failure and decoding the encoding
\* reproduces the input.
C6_SingleSymbolRoundTrip ==
    (pc = "done" /\ stream = encoded /\ Cardinality(SymbolsOf(s)) = 1) =>
        (outcome = "ok" /\ decoded = s)

\* C7: Frequency conservation. The frequency table has exactly one entry
\* per distinct symbol of s, each count is >= 1 and is the number of
\* occurrences of the symbol, the counts sum to the length of s, and the
\* root returned by BuildTree has that sum as its frequency.
C7_FrequencyConservation ==
    /\ pc # "start" =>
          /\ \A c \in SymbolsOf(s) :
                Cardinality({k \in 1..Len(leaves) : leaves[k].Value = c}) = 1
          /\ \A k \in 1..Len(leaves) :
                /\ leaves[k].Value \in SymbolsOf(s)
                /\ leaves[k].Frequency >= 1
                /\ leaves[k].Frequency = Occurrences(s, leaves[k].Value)
          /\ SumFreq(leaves) = Len(s)
    /\ (TreeBuilt /\ s # <<>>) => Freq(tree) = Len(s)

C7_Witness ==
    /\ TreeBuilt
    /\ Len(leaves) >= 2
    /\ \E k \in 1..Len(leaves) : leaves[k].Frequency >= 2
    /\ Freq(tree) = Len(s)

\* C8: Code length follows frequency. With at least 2 distinct symbols and
\* for every tie resolution, a symbol with a larger count never has a
\* longer code than a symbol with a smaller count; for "abracadabra" the
\* tree has 5 leaves with depth(a) <= depth(b), depth(r) <= depth(c),
\* depth(d).
C8_CodeLengthFollowsFrequency ==
    /\ (TableBuilt /\ Len(leaves) >= 2) =>
          \A x, y \in SymbolsOf(s) :
              Occurrences(s, x) > Occurrences(s, y) =>
                  Len(encoding[x]) <= Len(encoding[y])
    /\ (TreeBuilt /\ s = Abracadabra) =>
          /\ LeafCount(tree) = 5
          /\ \A m \in {"b", "r"} :
                /\ LeafDepth(tree, "a") <= LeafDepth(tree, m)
                /\ \A n \in {"c", "d"} :
                      LeafDepth(tree, m) <= LeafDepth(tree, n)

C8_Witness ==
    /\ TableBuilt
    /\ s = Abracadabra
    /\ Len(encoding["a"]) < Len(encoding["b"])
    /\ Len(encoding["r"]) <= Len(encoding["c"])

\* C9: Decode desynchronisation is reported. When applyHuffmanDecoding
\* reaches the end of the stream with a non-empty candidate buffer, the
\* decode ends in an explicit failure instead of returning normally.
C9_DesyncReported ==
    (pc = "done" /\ tree # NoTree /\ code # <<>>) => outcome # "ok"

\* C10: Empty input to the tree builder fails loudly. BuildTree called
\* with an empty set of frequency entries ends in a failure and never
\* returns a tree value.
C10_EmptyBuildTreeFails ==
    (leaves = <<>> /\ pc \notin {"start", "table", "loop"}) =>
        (outcome = "panic" /\ tree = NoTree /\ pc = "done")

C10_Witness ==
    s = <<>> /\ leaves = <<>> /\ pc = "done" /\ outcome = "panic"

\* the heap order of container/heap: no element is below its parent
IsHeap(pq) ==
    \A k \in 1..(Len(pq) - 1) :
        Freq(pq[((k - 1) \div 2) + 1]) <= Freq(pq[k + 1])

RECURSIVE InternalCount(_)
\* number of HuffmanNode values in a tree, one per combination
InternalCount(t) ==
    IF t.kind = "node"
    THEN 1 + InternalCount(t.Left) + InternalCount(t.Right)
    ELSE 0

RECURSIVE Combinations(_)
Combinations(pq) ==
    IF pq = <<>> THEN 0
    ELSE InternalCount(Head(pq)) + Combinations(Tail(pq))

\* C11: Huffman combination step takes the two global minima. In every
\* iteration of BuildTree's loop the removed trees a and b satisfy
\* Freq(a) <= Freq(b) <= Freq(t) for every tree t left in the queue, the
\* queue is in heap order before and after each Push and Pop, the new node
\* has frequency Freq(a) + Freq(b) with a as left and b as right child, and
\* for n >= 1 entries the loop ends with one tree after n - 1 combinations.
C11_CombinesTwoMinima ==
    /\ pc \in {"loop", "popB", "push"} => IsHeap(trees)
    /\ pc = "popB" =>
          \A k \in 1..Len(trees) : Freq(a) <= Freq(trees[k])
    /\ pc = "push" =>
          /\ Freq(a) <= Freq(b)
          /\ \A k \in 1..Len(trees) : Freq(b) <= Freq(trees[k])
    /\ (pc = "loop" /\ a # NoTree) =>
          \E k \in 1..Len(trees) :
              /\ trees[k].kind = "node"
              /\ trees[k].Left = a
              /\ trees[k].Right = b
              /\ trees[k].Frequency = Freq(a) + Freq(b)
    /\ pc = "loop" => Len(trees) + Combinations(trees) = Len(leaves)
    /\ (pc = "loop" /\ Len(leaves) >= 1 /\ Len(trees) <= 1) =>
          /\ Len(trees) = 1
          /\ InternalCount(trees[1]) = Len(leaves) - 1
    /\ (TreeBuilt /\ Len(leaves) >= 1) =>
          /\ trees = <<>>
          /\ InternalCount(tree) = Len(leaves) - 1

C11_Witness ==
    /\ pc = "push"
    /\ Len(trees) >= 2
    /\ b.kind = "node"
    /\ \E k \in 1..Len(trees) : Freq(b) < Freq(trees[k])

----------------------------------------------------------------------------
(* Properties of the case-shift transform.                                 *)

MarkerFree(str) ==
    \A k \in 1..Len(str) : str[k] \notin {ShiftInRune, ShiftOutRune}

\* C3: Case-shift round-trip. For every input free of the two marker
\* symbols, removeShiftString(applyShiftString(s)) = s, whatever mix of
\* upper-case, lower-case and other symbols s holds.
C3_ShiftRoundTrip ==
    (shiftPc = "done" /\ MarkerFree(shiftInput)) => unshifted = shiftInput

----------------------------------------------------------------------------
(* Properties of LZ77Compress.                                             *)

\* copy `length` bytes starting `distance` bytes back from the end of out
CopyBack(out, distance, length) ==
    SubSeq(out, Len(out) - distance + 1, Len(out) - distance + length)

\* replay of a token sequence: the copy, then the token's Next byte
RECURSIVE Replay(_, _)
Replay(tokens, out) ==
    IF tokens = <<>> THEN out
    ELSE LET t == Head(tokens)
         IN  Replay(Tail(tokens),
                    Append(out \o CopyBack(out, t.Distance, t.Length), t.Next))

\* C4: LZ77 reconstruction. For every byte sequence and windowSize >= 1,
\* replaying the tokens of LZ77Compress yields exactly the input, with no
\* missing and no extra byte.
C4_LZ77Reconstruction ==
    (lzPc = "done" /\ windowSize >= 1) => Replay(result, <<>>) = input

\* C5 as stated: every token has 0 <= Distance <= windowSize and
\* 0 <= Length < windowSize.
C5_TokenBoundsStrict ==
    (lzPc # "idle" /\ windowSize >= 1) =>
        \A k \in 1..Len(result) :
            /\ 0 <= result[k].Distance /\ result[k].Distance <= windowSize
            /\ 0 <= result[k].Length /\ result[k].Length < windowSize

\* C5 (amended): LZ77 token bounds. For windowSize >= 1 every token has
\* 0 <= Distance <= windowSize and 0 <= Length <= windowSize.
C5_TokenBounds ==
    (lzPc # "idle" /\ windowSize >= 1) =>
        \A k \in 1..Len(result) :
            /\ 0 <= result[k].Distance /\ result[k].Distance <= windowSize
            /\ 0 <= result[k].Length /\ result[k].Length <= windowSize

C5_Witness ==
    /\ lzPc = "done"
    /\ windowSize >= 1
    /\ windowSize < Len(input)
    /\ \E k \in 1..Len(result) :
          result[k].Length = windowSize /\ result[k].Distance = windowSize

\* the window positions of a cursor: max(0, cur - w) <= k < cur
Window(cur, w) == {k \in 0..(cur - 1) : k >= cur - w}

\* l bytes from k equal the l bytes from cur, the run from k stopping at
\* the cursor and the run from cur at the end of the input
Agree(data, k, cur, l) ==
    /\ l <= cur - k
    /\ cur + l <= Len(data)
    /\ \A m \in 0..(l - 1) : data[k + m + 1] = data[cur + m + 1]

\* the number of consecutive bytes from k equal to the bytes from cur
RunLen(data, k, cur) ==
    CHOOSE l \in 0..(cur - k) :
        /\ Agree(data, k, cur, l)
        /\ \A l2 \in 0..(cur - k) : Agree(data, k, cur, l2) => l2 <= l

\* the longest run over the window, 0 for an empty window
MaxRun(data, cur, w) ==
    IF Window(cur, w) = {} THEN 0
    ELSE CHOOSE l \in {RunLen(data, k, cur) : k \in Window(cur, w)} :
             \A k \in Window(cur, w) : RunLen(data, k, cur) <= l

\* the window positions whose run has the maximal length
Ties(data, cur, w) ==
    {k \in Window(cur, w) : RunLen(data, k, cur) = MaxRun(data, cur, w)}

\* LZ77Compress appends a token in this step
TokenEmitted == lzPc = "loop" /\ Len(result') = Len(result) + 1

LastToken(tokens) == tokens[Len(tokens)]

\* the cursor at which the last token was emitted
LastCursor == cursor - LastToken(result).Length - 1

\* C12 as stated: among two or more window positions with the same maximal
\* match length the token reports the smallest distance.
C12_TieBreakSmallestDistance ==
    [][(/\ TokenEmitted
        /\ MaxRun(input, cursor, windowSize) >= 1
        /\ Cardinality(Ties(input, cursor, windowSize)) >= 2) =>
            \A k \in Ties(input, cursor, windowSize) :
                LastToken(result').Distance <= cursor - k]_vars

\* C12 (amended): LZ77 tie-break. Among two or more window positions with
\* the same maximal match length (>= 1) the token reports the largest
\* distance, the candidate farthest from the cursor.
C12_TieBreakLargestDistance ==
    [][(/\ TokenEmitted
        /\ MaxRun(input, cursor, windowSize) >= 1
        /\ Cardinality(Ties(input, cursor, windowSize)) >= 2) =>
            /\ cursor - LastToken(result').Distance
                   \in Ties(input, cursor, windowSize)
            /\ \A k \in Ties(input, cursor, windowSize) :
                   LastToken(result').Distance >= cursor - k]_vars

C12_Witness ==
    /\ lzPc = "loop"
    /\ result # <<>>
    /\ LastToken(result).Length >= 1
    /\ Cardinality(Ties(input, LastCursor, windowSize)) >= 2
    /\ \A k \in Ties(input, LastCursor, windowSize) :
          LastToken(result).Distance >= LastCursor - k
    /\ \E k \in Ties(input, LastCursor, windowSize) :
          LastToken(result).Distance > LastCursor - k

\* C13: LZ77 longest match. For every input, cursor position and
\* windowSize >= 1 the length returned by longestMatch is the maximum over
\* the window positions of the run of equal bytes (stopped at the cursor
\* and at the input end); length 0 and distance 0 are returned exactly when
\* no window position matches the first byte; LZ77Compress then advances the
\* cursor by length + 1.
C13_LongestMatch ==
    /\ []((lzPc # "idle" /\ windowSize >= 1) =>
            \A cur \in 0..(Len(input) - 1) :
                LET m == longestMatch(input, cur, windowSize)
                    noMatch == \A k \in Window(cur, windowSize) :
                                   input[k + 1] # input[cur + 1]
                IN  /\ m.length = MaxRun(input, cur, windowSize)
                    /\ (m.length = 0 /\ m.distance = 0) <=> noMatch
                    /\ ~noMatch => (m.length >= 1 /\ m.distance >= 1))
    /\ [][(TokenEmitted /\ windowSize >= 1) =>
            /\ LastToken(result').Length = MaxRun(input, cursor, windowSize)
            /\ cursor' = cursor + LastToken(result').Length + 1]_vars

C13_Witness ==
    /\ lzPc = "done"
    /\ windowSize >= 1
    /\ Len(result) >= 3
    /\ LastToken(result).Length >= 2
    /\ LastToken(result).Length = MaxRun(input, LastCursor, windowSize)
    /\ cursor = Len(input)

\* C14: LZ77 back-references never overlap the cursor and the scan always
\* progresses. For every windowSize, zero and negative included, a token
\* with Length > 0 has 1 <= Length <= Distance <= cursor and
\* cursor + Length <= len(input); the cursor strictly increases at each
\* token; LZ77Compress terminates with at most len(input) tokens and with no
\* token for an empty input.
C14_NoOverlapAndProgress ==
    /\ [][TokenEmitted =>
            /\ cursor' > cursor
            /\ LastToken(result').Length > 0 =>
                  /\ 1 <= LastToken(result').Length
                  /\ LastToken(result').Length <= LastToken(result').Distance
                  /\ LastToken(result').Distance <= cursor
                  /\ cursor + LastToken(result').Length <= Len(input)]_vars
    /\ [](lzPc # "idle" => Len(result) <= Len(input))
    /\ []((lzPc # "idle" /\ input = <<>>) => result = <<>>)
    /\ <>(lzPc = "done")

C14_Witness ==
    /\ lzPc = "done"
    /\ Len(result) < Len(input)
    /\ \E k \in 1..Len(result) :
          /\ result[k].Length >= 2
          /\ result[k].Length = result[k].Distance

====
